---- MODULE Spec2Model ----
(***************************************************************************)
(* Request dispatch loop of the Debtx intranet process: the relational     *)
(* queue tables (request_log, request_progress_log), the monitor tables    *)
(* (process_monitor_log, process_monitor_progress_log,                     *)
(* process_monitor_details), the four operation handlers and the status    *)
(* updater, with MySQL's transaction semantics (autocommit off: a write is *)
(* durable only once committed; rollback and closing the connection        *)
(* discard uncommitted writes).                                            *)
(*                                                                         *)
(* Names the sources import but do not define are read as the definitions  *)
(* they stand for: MySQLConnectionSingleton is DBConnectionSingleton and   *)
(* DatabaseConnectionError is an Exception subclass.                       *)
(***************************************************************************)
EXTENDS Integers, Sequences, FiniteSets, TLC

\* Bound: how many request rows the queue tables hold.
MaxQueue == 2
\* Bound: how many rows process_monitor_log may grow to.
MaxMonitorRows == 2

\* Process_request.run_process: for option in range(1, optionCount)
optionCount == 5

---------------------------------------------------------------------------
\* The rows a queue table can hold (SELECT * FROM request_progress_log):
\* the fields the handlers read with row.get(...).
Rows ==
  << [Request_Id |-> 1, Order_Id |-> 1, account_num |-> "ACC1", case_id |-> "C1"],
     [Request_Id |-> 2, Order_Id |-> 2, account_num |-> "ACC1", case_id |-> "C1"],
     [Request_Id |-> 3, Order_Id |-> 3, account_num |-> "ACC1", case_id |-> "C1"],
     [Request_Id |-> 4, Order_Id |-> 4, account_num |-> "ACC1", case_id |-> "C1"],
     [Request_Id |-> 5, Order_Id |-> 2, account_num |-> "ACC2", case_id |-> "C2"],
     [Request_Id |-> 6, Order_Id |-> 3, account_num |-> "ACC2", case_id |-> "C2"],
     [Request_Id |-> 7, Order_Id |-> 4, account_num |-> "ACC2", case_id |-> "C2"],
     \* an operation type that process_selected_option has no case for
     [Request_Id |-> 8, Order_Id |-> 5, account_num |-> "ACC1", case_id |-> "C1"],
     \* rows with a missing or malformed field: no Request_Id (written 0),
     \* an account_num of blanks, no case_id
     [Request_Id |-> 0, Order_Id |-> 1, account_num |-> "ACC1", case_id |-> "C1"],
     [Request_Id |-> 10, Order_Id |-> 2, account_num |-> " ", case_id |-> "C1"],
     [Request_Id |-> 11, Order_Id |-> 4, account_num |-> " ", case_id |-> "C1"],
     [Request_Id |-> 12, Order_Id |-> 4, account_num |-> "ACC1", case_id |-> ""],
     \* Registration rows (they carry no case_id) whose payload is missing:
     \* no row in request_log_details, and a row with an empty para_1
     [Request_Id |-> 13, Order_Id |-> 1, account_num |-> "ACC1", case_id |-> ""],
     [Request_Id |-> 14, Order_Id |-> 1, account_num |-> "ACC2", case_id |-> ""] >>

\* The keys of the queue tables: the position of the row in Rows, which is
\* its Request_Id wherever the row has one.
RequestIds == DOMAIN Rows

NULL == "NULL"

\* request_log_details: para_1 .. para_10 per Request_Id. Requests 5, 7 and
\* 13 have no row (the payload was never written); request 14 has a row with
\* an empty para_1.
ParaRow(tag) ==
  << tag, "P2", "P3", "P4", "P5", "P6", "P7", "P8", "P9", "P10" >>

request_log_details ==
  [r \in {1, 2, 3, 4, 6, 11, 14} |->
     ParaRow(IF r = 1 THEN "1001" ELSE IF r = 3 THEN "X3"
             ELSE IF r = 6 THEN "X6" ELSE IF r = 14 THEN "" ELSE "X") ]

VARIABLES
  request_log,                  \* Request_Id -> Request_Status
  request_progress_log,         \* Request_Id -> Request_Status
  process_monitor_log,          \* sequence of rows, index = Monitor_Id
  process_monitor_progress_log, \* sequence of mirror rows
  process_monitor_details,      \* sequence of [Monitor_Id, para]
  instance,                     \* DBConnectionSingleton._instance
  pc,                           \* position of run_process
  open_orders,                  \* the rows fetched at the start of the cycle
  work,                         \* rows of the cycle not dispatched yet
  last,                         \* the invocation just made, what it returned
                                \* and whether the inter-item sleep followed
  updated,                      \* requests whose status update returned True
  collection                    \* the MongoDB collection of the document-store
                                \* variant: document -> request_status

vars == << request_log, request_progress_log, process_monitor_log,
           process_monitor_progress_log, process_monitor_details,
           instance, pc, open_orders, work, last, updated, collection >>

---------------------------------------------------------------------------
\* The store, bundled so that a handler is a function of it.
Store ==
  [ rl   |-> request_log,
    rpl  |-> request_progress_log,
    pml  |-> process_monitor_log,
    pmpl |-> process_monitor_progress_log,
    pmd  |-> process_monitor_details ]

SetStore(S) ==
  /\ request_log' = S.rl
  /\ request_progress_log' = S.rpl
  /\ process_monitor_log' = S.pml
  /\ process_monitor_progress_log' = S.pmpl
  /\ process_monitor_details' = S.pmd

\* A transaction on one connection: c is what is committed, w what the
\* connection sees (committed plus its own uncommitted writes).
Begin(S) == [c |-> S, w |-> S]
Commit(tx) == [c |-> tx.w, w |-> tx.w]
\* A rollback that undoes nothing (the connection in autocommit mode).
RollbackKeepsWrites(tx) == [c |-> tx.w, w |-> tx.w]
Rollback(tx) == [c |-> tx.c, w |-> tx.c]

\* Whether time.sleep(1) follows the invocation inside its batch routine: the
\* routines of options 1 and 2 sleep after every row that returned, the
\* inline routine of option 4 leaves each failure path with `continue` and
\* sleeps only after a success; an exception leaves the routine before its
\* sleep. A handler invoked by another caller has no sleep of the loop.
\* In OrderMani process_option_1 sleeps after every document; the cases of
\* the other options run no routine.
Delay(op, ret, outcome) ==
  CASE op = "registration" -> TRUE
    [] op = "start" -> outcome # "raised"
    [] op = "close" -> ret
    [] op = "OrderMani_option" -> outcome # "placeholder"
    [] OTHER -> FALSE

NoCall ==
  [op |-> "none", rid |-> 0, ret |-> FALSE, outcome |-> "none", slept |-> FALSE]
Call(op, rid, ret, outcome) ==
  [op |-> op, rid |-> rid, ret |-> ret, outcome |-> outcome,
   slept |-> Delay(op, ret, outcome)]

\* What a handler hands back: its return value, the log line that tells why,
\* the committed store once its connection scope has exited, and the
\* singleton afterwards.
Res(ret, outcome, S, inst) ==
  [ret |-> ret, outcome |-> outcome, S |-> S, inst |-> inst]

---------------------------------------------------------------------------
\* DBConnectionSingleton: __new__ creates the instance once; a failed
\* connect leaves an instance whose connection is None, and close_connection
\* clears _instance only when the connection is live.
\* instance = "None": no instance; "failed": an instance with connection None.
\* `down` says whether mysql.connector.connect fails now. The result is the
\* connection the `with` scope works on and the singleton once that scope
\* has exited (a live connection is closed and the instance cleared).
get_connection(inst, down) ==
  IF inst = "failed" \/ down
    THEN [connection |-> FALSE, inst |-> "failed"]
    ELSE [connection |-> TRUE, inst |-> "None"]

---------------------------------------------------------------------------
\* str.strip() on the strings the rows hold.
strip(s) == IF s = " " THEN "" ELSE s

\* _validate_inputs of MonitorPayment: account_num a non-blank string,
\* request_id a positive integer (a missing Request_Id is written 0).
validate_inputs(account_num, request_id) ==
  /\ account_num # NULL
  /\ strip(account_num) # ""
  /\ request_id > 0

\* QueueMatch with the `Request_Status = 'Open'` condition left out of the
\* WHERE clause.
QueueMatchAnyStatus(tbl, request_id, account_num) ==
  { r \in DOMAIN tbl : r = request_id /\ Rows[r].account_num = account_num }

\* UPDATE <queue table> SET Request_Status = status
\*   WHERE Request_Id = .. AND account_num = .. AND Request_Status = 'Open'
QueueMatch(tbl, request_id, account_num) ==
  { r \in DOMAIN tbl : /\ r = request_id
                       /\ Rows[r].account_num = account_num
                       /\ tbl[r] = "Open" }

\* QueueUpdate writing the row of the request whatever its status.
QueueUpdateAnyStatus(tbl, request_id, account_num, status) ==
  [ r \in DOMAIN tbl |->
      IF r = request_id /\ Rows[r].account_num = account_num THEN status ELSE tbl[r] ]

QueueUpdate(tbl, request_id, account_num, status) ==
  [ r \in DOMAIN tbl |->
      IF r \in QueueMatch(tbl, request_id, account_num) THEN status ELSE tbl[r] ]

---------------------------------------------------------------------------
\* update_request_progress_status without the row-count check on request_log:
\* it returns True once request_progress_log was updated.
update_request_progress_status_unchecked_log(w, inst, request_id, account_num, status, connection, fault) ==
  IF ~validate_inputs(account_num, request_id)
    THEN [ok |-> FALSE, w |-> w, inst |-> inst, outcome |-> "invalid"]
  ELSE IF ~connection
    THEN LET g == get_connection(inst, fault = "conn_status") IN
         [ok |-> FALSE, w |-> w, inst |-> g.inst,
          outcome |-> IF g.connection THEN "closed_connection" ELSE "noconn"]
  ELSE IF fault = "upd_progress"
    THEN [ok |-> FALSE, w |-> w, inst |-> inst, outcome |-> "dberror"]
  ELSE LET w1 == [w EXCEPT !.rpl = QueueUpdate(w.rpl, request_id, account_num, status)] IN
    IF Cardinality(QueueMatch(w.rpl, request_id, account_num)) # 1
      THEN [ok |-> FALSE, w |-> w1, inst |-> inst, outcome |-> "rowcount_progress"]
    ELSE IF fault = "upd_log"
      THEN [ok |-> FALSE, w |-> w1, inst |-> inst, outcome |-> "dberror"]
    ELSE [ok |-> TRUE,
          w |-> [w1 EXCEPT !.rl = QueueUpdate(w1.rl, request_id, account_num, status)],
          inst |-> inst, outcome |-> "ok"]

\* MonitorPayment.update_request_progress_status. `w` is what the caller's
\* connection sees; `connection` is FALSE when the caller passes none.
\* Without a passed connection the method takes one inside a `with` scope,
\* whose exit closes it (DBConnectionSingleton.__exit__) before
\* connection.cursor() is reached: cursor() on the closed connection raises
\* and the outer `except Exception` returns False.
update_request_progress_status(w, inst, request_id, account_num, status, connection, fault) ==
  IF ~validate_inputs(account_num, request_id)
    THEN [ok |-> FALSE, w |-> w, inst |-> inst, outcome |-> "invalid"]
  ELSE IF ~connection
    THEN LET g == get_connection(inst, fault = "conn_status") IN
         [ok |-> FALSE, w |-> w, inst |-> g.inst,
          outcome |-> IF g.connection THEN "closed_connection" ELSE "noconn"]
  ELSE IF fault = "upd_progress"
    THEN [ok |-> FALSE, w |-> w, inst |-> inst, outcome |-> "dberror"]
  ELSE LET w1 == [w EXCEPT !.rpl = QueueUpdate(w.rpl, request_id, account_num, status)] IN
    IF Cardinality(QueueMatch(w.rpl, request_id, account_num)) # 1
      THEN [ok |-> FALSE, w |-> w1, inst |-> inst, outcome |-> "rowcount_progress"]
    ELSE IF fault = "upd_log"
      THEN [ok |-> FALSE, w |-> w1, inst |-> inst, outcome |-> "dberror"]
    ELSE IF Cardinality(QueueMatch(w1.rl, request_id, account_num)) # 1
      THEN [ok |-> FALSE, w |-> w1, inst |-> inst, outcome |-> "rowcount_log"]
    ELSE [ok |-> TRUE,
          w |-> [w1 EXCEPT !.rl = QueueUpdate(w1.rl, request_id, account_num, status)],
          inst |-> inst, outcome |-> "ok"]

---------------------------------------------------------------------------
\* process_case reporting the API's result although the UPDATE of request_log
\* raised after the UPDATE of request_progress_log was committed.
process_case_ignoring_log_error(S, inst, account_number, request_id, api_ok, fault) ==
  LET status == IF api_ok THEN "Completed" ELSE "Error"
      g == get_connection(inst, fault = "conn_case")
  IN
  IF ~g.connection THEN Res(FALSE, "noconn", S, g.inst)
  ELSE IF fault = "upd_progress" THEN Res(FALSE, "dberror", S, g.inst)
  ELSE
    LET n1 == Cardinality(QueueMatch(S.rpl, request_id, account_number))
        S1 == [S EXCEPT !.rpl = QueueUpdate(S.rpl, request_id, account_number, status)]
    IN
    IF n1 # 1 THEN Res(FALSE, "rowcount_progress", S1, g.inst)
    ELSE IF fault = "upd_log" THEN Res(api_ok, "ok", S1, g.inst)
    ELSE
      LET n2 == Cardinality(QueueMatch(S1.rl, request_id, account_number))
          S2 == [S1 EXCEPT !.rl = QueueUpdate(S1.rl, request_id, account_number, status)]
      IN
      IF n2 # 1 THEN Res(FALSE, "rowcount_log", S2, g.inst)
      ELSE Res(api_ok, IF api_ok THEN "ok" ELSE "api_failed", S2, g.inst)

\* A Registration handler that writes a status only when the API call
\* succeeded, leaving the record Open on an API failure.
process_case_api_failure_leaves_open(S, inst, account_number, request_id, api_ok, fault) ==
  LET status == IF api_ok THEN "Completed" ELSE "Open"
      g == get_connection(inst, fault = "conn_case")
  IN
  IF ~g.connection THEN Res(FALSE, "noconn", S, g.inst)
  ELSE IF fault = "upd_progress" THEN Res(FALSE, "dberror", S, g.inst)
  ELSE
    LET n1 == Cardinality(QueueMatch(S.rpl, request_id, account_number))
        S1 == [S EXCEPT !.rpl = QueueUpdate(S.rpl, request_id, account_number, status)]
    IN
    IF n1 # 1 THEN Res(FALSE, "rowcount_progress", S1, g.inst)
    ELSE IF fault = "upd_log" THEN Res(FALSE, "dberror", S1, g.inst)
    ELSE
      LET n2 == Cardinality(QueueMatch(S1.rl, request_id, account_number))
          S2 == [S1 EXCEPT !.rl = QueueUpdate(S1.rl, request_id, account_number, status)]
      IN
      IF n2 # 1 THEN Res(FALSE, "rowcount_log", S2, g.inst)
      ELSE Res(api_ok, IF api_ok THEN "ok" ELSE "api_failed", S2, g.inst)

\* Process_request.process_case: the Registration handler's status writes.
\* api_ok is the result of CreateIncident.process_incident. Each UPDATE is
\* committed on its own, before its row count is read.
process_case(S, inst, account_number, request_id, api_ok, fault) ==
  LET status == IF api_ok THEN "Completed" ELSE "Error"
      g == get_connection(inst, fault = "conn_case")
  IN
  IF ~g.connection THEN Res(FALSE, "noconn", S, g.inst)
  ELSE IF fault = "upd_progress" THEN Res(FALSE, "dberror", S, g.inst)
  ELSE
    LET n1 == Cardinality(QueueMatch(S.rpl, request_id, account_number))
        S1 == [S EXCEPT !.rpl = QueueUpdate(S.rpl, request_id, account_number, status)]
    IN
    IF n1 # 1 THEN Res(FALSE, "rowcount_progress", S1, g.inst)
    ELSE IF fault = "upd_log" THEN Res(FALSE, "dberror", S1, g.inst)
    ELSE
      LET n2 == Cardinality(QueueMatch(S1.rl, request_id, account_number))
          S2 == [S1 EXCEPT !.rl = QueueUpdate(S1.rl, request_id, account_number, status)]
      IN
      IF n2 # 1 THEN Res(FALSE, "rowcount_log", S2, g.inst)
      ELSE Res(api_ok, IF api_ok THEN "ok" ELSE "api_failed", S2, g.inst)

\* process_single_document going on to process_case whatever the lookup of
\* para_1 returned.
process_single_document_ignoring_miss(S, inst, row, api_ok, fault) ==
  IF row.Request_Id = 0 \/ row.account_num \in {NULL, ""}
    THEN Res(FALSE, "invalid", S, inst)
  ELSE
    LET g == get_connection(inst, fault = "conn") IN
    IF ~g.connection THEN Res(FALSE, "noconn", S, g.inst)
    ELSE IF fault = "sel_details" THEN Res(FALSE, "dberror", S, g.inst)
    ELSE process_case(S, g.inst, row.account_num, row.Request_Id, api_ok, fault)

\* Process_request.process_single_document: validation, the incident id
\* lookup (para_1 of request_log_details), then process_case.
process_single_document(S, inst, row, api_ok, fault) ==
  IF row.Request_Id = 0 \/ row.account_num \in {NULL, ""}
    THEN Res(FALSE, "invalid", S, inst)
  ELSE
    LET g == get_connection(inst, fault = "conn") IN
    IF ~g.connection THEN Res(FALSE, "noconn", S, g.inst)
    ELSE IF fault = "sel_details" THEN Res(FALSE, "dberror", S, g.inst)
    ELSE IF \/ row.Request_Id \notin DOMAIN request_log_details
            \/ request_log_details[row.Request_Id][1] \in {NULL, ""}
      THEN Res(FALSE, "nodetails", S, g.inst)
    ELSE process_case(S, g.inst, row.account_num, row.Request_Id, api_ok, fault)

---------------------------------------------------------------------------
\* Rows of process_monitor_log and process_monitor_progress_log.
MonitorRow(monitor_id, case_id, request_id, order_id, account_num, status, descr) ==
  [ Monitor_Id |-> monitor_id, case_id |-> case_id, Request_Id |-> request_id,
    Order_Id |-> order_id, account_num |-> account_num,
    monitor_status |-> status, monitor_status_description |-> descr ]

\* MonitorPayment.get_request_details: the para row, or none (also none,
\* with an error logged, when the SELECT raises).
HasDetails(request_id) == request_id \in DOMAIN request_log_details

\* MonitorPayment.create_process_monitor_log: INSERT on a connection of its
\* own, committed at once; returns the generated Monitor_Id (0 for None).
create_process_monitor_log(S, inst, request_data, fault) ==
  LET g == get_connection(inst, fault = "conn_log") IN
  IF ~g.connection
    THEN [monitor_id |-> 0, S |-> S, inst |-> g.inst, outcome |-> "noconn"]
  ELSE IF fault = "ins_log"
    THEN [monitor_id |-> 0, S |-> S, inst |-> g.inst, outcome |-> "dberror"]
  ELSE
    LET id == Len(S.pml) + 1
        row == MonitorRow(id, request_data.case_id, request_data.Request_Id,
                          request_data.Order_Id, request_data.account_num,
                          "Open", "Initial monitoring setup")
    IN [monitor_id |-> id, S |-> [S EXCEPT !.pml = Append(S.pml, row)],
        inst |-> g.inst, outcome |-> "ok"]

\* MonitorPayment.create_process_monitor_progress_log: reads the monitor row
\* back by Monitor_Id and inserts its copy, committed at once.
create_process_monitor_progress_log(S, inst, monitor_id, fault) ==
  LET g == get_connection(inst, fault = "conn_mirror") IN
  IF ~g.connection
    THEN [ok |-> FALSE, S |-> S, inst |-> g.inst, outcome |-> "noconn"]
  ELSE IF monitor_id \notin DOMAIN S.pml
    THEN [ok |-> FALSE, S |-> S, inst |-> g.inst, outcome |-> "norecord"]
  ELSE IF fault = "ins_mirror"
    THEN [ok |-> FALSE, S |-> S, inst |-> g.inst, outcome |-> "dberror"]
  ELSE [ok |-> TRUE,
        S |-> [S EXCEPT !.pmpl = Append(S.pmpl, S.pml[monitor_id])],
        inst |-> g.inst, outcome |-> "ok"]

\* A details insert that files the row under the request's id instead of
\* the Monitor_Id it was given.
create_process_monitor_details_by_request(tx, monitor_id, request_id, fault) ==
  IF fault = "sel_details"
    THEN [ok |-> FALSE, tx |-> tx, outcome |-> "dberror"]
  ELSE IF ~HasDetails(request_id)
    THEN [ok |-> FALSE, tx |-> tx, outcome |-> "nodetails"]
  ELSE IF fault = "ins_details"
    THEN [ok |-> FALSE, tx |-> tx, outcome |-> "dberror"]
  ELSE
    LET row == [Monitor_Id |-> request_id, para |-> request_log_details[request_id]]
    IN [ok |-> TRUE,
        tx |-> Commit([tx EXCEPT !.w.pmd = Append(tx.w.pmd, row)]),
        outcome |-> "ok"]

\* MonitorPayment.create_process_monitor_details on the caller's connection:
\* copies para_1..para_10 and commits the connection (everything pending on
\* it, not only this insert).
create_process_monitor_details(tx, monitor_id, request_id, fault) ==
  IF fault = "sel_details"
    THEN [ok |-> FALSE, tx |-> tx, outcome |-> "dberror"]
  ELSE IF ~HasDetails(request_id)
    THEN [ok |-> FALSE, tx |-> tx, outcome |-> "nodetails"]
  ELSE IF fault = "ins_details"
    THEN [ok |-> FALSE, tx |-> tx, outcome |-> "dberror"]
  ELSE
    LET row == [Monitor_Id |-> monitor_id, para |-> request_log_details[request_id]]
    IN [ok |-> TRUE,
        tx |-> Commit([tx EXCEPT !.w.pmd = Append(tx.w.pmd, row)]),
        outcome |-> "ok"]

\* MonitorPayment.process_monitoring_request: the MonitorStart handler.
\* Steps 1 and 2 each use a connection of their own; step 3 takes one in a
\* `with` scope and raises DatabaseConnectionError (not caught here) when
\* there is none; step 4 calls the status updater without a connection.
process_monitoring_request(S, inst, request_data, fault) ==
  IF ~validate_inputs(request_data.account_num, request_data.Request_Id)
    THEN Res(FALSE, "invalid", S, inst)
  ELSE
  LET s1 == create_process_monitor_log(S, inst, request_data, fault) IN
  IF s1.monitor_id = 0 THEN Res(FALSE, s1.outcome, s1.S, s1.inst)
  ELSE
  LET s2 == create_process_monitor_progress_log(s1.S, s1.inst, s1.monitor_id, fault) IN
  IF ~s2.ok THEN Res(FALSE, s2.outcome, s2.S, s2.inst)
  ELSE
  LET g == get_connection(s2.inst, fault = "conn_details") IN
  IF ~g.connection THEN Res(FALSE, "raised", s2.S, g.inst)
  ELSE
  LET s3 == create_process_monitor_details(Begin(s2.S), s1.monitor_id,
                                           request_data.Request_Id, fault) IN
  IF ~s3.ok THEN Res(FALSE, s3.outcome, s3.tx.c, g.inst)
  ELSE
  LET s4 == update_request_progress_status(s3.tx.c, g.inst, request_data.Request_Id,
                                           request_data.account_num, "Completed",
                                           FALSE, fault)
  IN Res(s4.ok, s4.outcome, s3.tx.c, s4.inst)

---------------------------------------------------------------------------
\* Process_request.close_monitor_if_no_transaction, steps 1 to 4 for one row
\* of Order_Id 4 on the connection taken for it (the same steps as in
\* CloseMonitor.close_monitor_if_no_transaction): no lookup of an existing
\* MonitorRecord; the two inserts are committed as they are made, so the
\* rollbacks that follow a later failure find nothing of them to undo.
close_monitor_writes(S, inst, request_data, fault) ==
  IF fault = "ins_log" THEN Res(FALSE, "dberror", S, inst)
  ELSE
  LET id == Len(S.pml) + 1
      row == MonitorRow(id, request_data.case_id, request_data.Request_Id,
                        request_data.Order_Id, request_data.account_num,
                        "Closed", "Monitor closed due to no transaction")
      t1 == Commit([Begin(S) EXCEPT !.w.pml = Append(S.pml, row)])
  IN
  IF fault = "ins_mirror" THEN Res(FALSE, "dberror", Rollback(t1).c, inst)
  ELSE
  LET t2 == Commit([t1 EXCEPT !.w.pmpl = Append(t1.w.pmpl, row)])
      s3 == create_process_monitor_details(t2, id, request_data.Request_Id, fault)
  IN
  IF ~s3.ok THEN Res(FALSE, s3.outcome, Rollback(s3.tx).c, inst)
  ELSE
  LET s4 == update_request_progress_status(s3.tx.w, inst, request_data.Request_Id,
                                           request_data.account_num, "Completed",
                                           TRUE, fault)
      t4 == [s3.tx EXCEPT !.w = s4.w]
  IN
  IF ~s4.ok THEN Res(FALSE, s4.outcome, Rollback(t4).c, inst)
  ELSE Res(TRUE, "ok", Commit(t4).c, inst)

\* close_monitor_steps made to look the MonitorRecord up first, as the
\* cancel handler does, and to fail when there is none.
close_monitor_steps_with_lookup(S, inst, request_data, fault) ==
  LET g == get_connection(inst, fault = "conn") IN
  IF ~g.connection THEN Res(FALSE, "noconn", S, g.inst)
  ELSE IF { i \in DOMAIN S.pmpl :
              /\ S.pmpl[i].case_id = request_data.case_id
              /\ S.pmpl[i].account_num = request_data.account_num } = {}
    THEN Res(FALSE, "norecord", S, g.inst)
  ELSE close_monitor_writes(S, g.inst, request_data, fault)

\* A close that marks the record Error in both queue tables when its steps
\* fail, as the Registration handler does on an API failure.
close_monitor_steps_marking_error(S, inst, request_data, fault) ==
  LET g == get_connection(inst, fault = "conn") IN
  IF ~g.connection THEN Res(FALSE, "noconn", S, g.inst)
  ELSE
    LET res == close_monitor_writes(S, g.inst, request_data, fault) IN
    IF res.ret THEN res
    ELSE [res EXCEPT
            !.S.rpl = QueueUpdate(res.S.rpl, request_data.Request_Id,
                                  request_data.account_num, "Error"),
            !.S.rl = QueueUpdate(res.S.rl, request_data.Request_Id,
                                 request_data.account_num, "Error")]

\* The connection scope around those steps: without a connection
\* DatabaseConnectionError is raised and caught, and the row counts as failed.
close_monitor_steps(S, inst, request_data, fault) ==
  LET g == get_connection(inst, fault = "conn") IN
  IF ~g.connection THEN Res(FALSE, "noconn", S, g.inst)
  ELSE close_monitor_writes(S, g.inst, request_data, fault)

\* The row check at the head of Process_request.close_monitor_if_no_transaction's
\* loop body: `not request_id or not account_num or not case_id`.
close_monitor_if_no_transaction(S, inst, request_data, fault) ==
  IF \/ request_data.Request_Id = 0
     \/ request_data.account_num \in {NULL, ""}
     \/ request_data.case_id \in {NULL, ""}
    THEN Res(FALSE, "invalid", S, inst)
    ELSE close_monitor_steps(S, inst, request_data, fault)

\* _validate_inputs of CancelMonitoring and CloseMonitor: as MonitorPayment's,
\* and case_id a non-blank string.
validate_inputs_case(account_num, request_id, case_id) ==
  /\ account_num # NULL /\ strip(account_num) # ""
  /\ case_id # NULL /\ strip(case_id) # ""
  /\ request_id > 0

\* CloseMonitor.close_monitor_if_no_transaction: one row of Order_Id 4.
CloseMonitor_close_monitor_if_no_transaction(S, inst, request_data, fault) ==
  IF ~validate_inputs_case(request_data.account_num, request_data.Request_Id,
                           request_data.case_id)
    THEN Res(FALSE, "invalid", S, inst)
    ELSE close_monitor_steps(S, inst, request_data, fault)

---------------------------------------------------------------------------
\* The rows an UPDATE ... WHERE Monitor_Id = .. AND case_id = .. AND
\* account_num = .. of a monitor table matches.
MonitorMatch(tbl, monitor_id, case_id, account_num) ==
  { i \in DOMAIN tbl : /\ tbl[i].Monitor_Id = monitor_id
                       /\ tbl[i].case_id = case_id
                       /\ tbl[i].account_num = account_num }

\* SET Request_Id, Order_Id, monitor_status = 'Cancelled',
\*     monitor_status_description = 'Cancellation processed'
MonitorCancelUpdate(tbl, monitor_id, request_data) ==
  [ i \in DOMAIN tbl |->
      IF i \in MonitorMatch(tbl, monitor_id, request_data.case_id,
                            request_data.account_num)
        THEN [tbl[i] EXCEPT !.Request_Id = request_data.Request_Id,
                            !.Order_Id = request_data.Order_Id,
                            !.monitor_status = "Cancelled",
                            !.monitor_status_description = "Cancellation processed"]
        ELSE tbl[i] ]

\* UPDATE process_monitor_details SET para_1, para_2 from the request's
\* details, para_3 .. para_10 = NULL WHERE Monitor_Id = ..
DetailsMatch(tbl, monitor_id) ==
  { i \in DOMAIN tbl : tbl[i].Monitor_Id = monitor_id }

\* A cancel that clears para_3 .. para_10 and leaves para_1 and para_2 as
\* the record had them.
DetailsCancelKeepsOriginal(tbl, monitor_id, request_details) ==
  [ i \in DOMAIN tbl |->
      IF i \in DetailsMatch(tbl, monitor_id)
        THEN [tbl[i] EXCEPT !.para =
                [k \in 1..10 |-> IF k <= 2 THEN tbl[i].para[k] ELSE NULL]]
        ELSE tbl[i] ]

DetailsCancelUpdate(tbl, monitor_id, request_details) ==
  [ i \in DOMAIN tbl |->
      IF i \in DetailsMatch(tbl, monitor_id)
        THEN [tbl[i] EXCEPT !.para =
                [k \in 1..10 |-> IF k <= 2 THEN request_details[k] ELSE NULL]]
        ELSE tbl[i] ]

\* SELECT Monitor_Id FROM process_monitor_progress_log
\*   WHERE case_id = .. AND account_num = ..   (fetchone: the first row)
ExistingRecords(tbl, case_id, account_num) ==
  { i \in DOMAIN tbl : tbl[i].case_id = case_id /\ tbl[i].account_num = account_num }

Min(set) == CHOOSE x \in set : \A y \in set : x <= y

\* CancelMonitoring.cancel_monitoring_request, steps 3 to 6: the updates of
\* the mirror, the monitor row and the details, then the status update.
\* Nothing is committed before the last step; every failure rolls back.
cancel_monitoring_updates(S, inst, request_data, monitor_id, fault) ==
  LET request_id == request_data.Request_Id
      account_num == request_data.account_num
      case_id == request_data.case_id
      t0 == Begin(S)
  IN
  IF fault = "upd_mirror" THEN Res(FALSE, "dberror", Rollback(t0).c, inst)
  ELSE
  LET n3 == Cardinality(MonitorMatch(t0.w.pmpl, monitor_id, case_id, account_num))
      t3 == [t0 EXCEPT !.w.pmpl = MonitorCancelUpdate(t0.w.pmpl, monitor_id, request_data)]
  IN
  IF n3 # 1 THEN Res(FALSE, "rowcount_mirror", Rollback(t3).c, inst)
  ELSE IF fault = "upd_monitor" THEN Res(FALSE, "dberror", Rollback(t3).c, inst)
  ELSE
  LET n4 == Cardinality(MonitorMatch(t3.w.pml, monitor_id, case_id, account_num))
      t4 == [t3 EXCEPT !.w.pml = MonitorCancelUpdate(t3.w.pml, monitor_id, request_data)]
  IN
  IF n4 # 1 THEN Res(FALSE, "rowcount_monitor", Rollback(t4).c, inst)
  ELSE IF fault = "upd_details" THEN Res(FALSE, "dberror", Rollback(t4).c, inst)
  ELSE
  LET n5 == Cardinality(DetailsMatch(t4.w.pmd, monitor_id))
      t5 == [t4 EXCEPT !.w.pmd = DetailsCancelUpdate(t4.w.pmd, monitor_id,
                                                     request_log_details[request_id])]
  IN
  IF n5 # 1 THEN Res(FALSE, "rowcount_details", Rollback(t5).c, inst)
  ELSE
  LET s6 == update_request_progress_status(t5.w, inst, request_id, account_num,
                                           "Completed", TRUE, fault)
      t6 == [t5 EXCEPT !.w = s6.w]
  IN
  IF ~s6.ok THEN Res(FALSE, s6.outcome, Rollback(t6).c, inst)
  ELSE Res(TRUE, "ok", Commit(t6).c, inst)

\* cancel_monitoring_request taking a lookup miss for "nothing left to
\* cancel": it goes on to the status update and commits.
cancel_monitoring_request_miss_completes(S, inst, request_data, fault) ==
  LET request_id == request_data.Request_Id
      account_num == request_data.account_num
      case_id == request_data.case_id
  IN
  IF ~validate_inputs_case(account_num, request_id, case_id)
    THEN Res(FALSE, "invalid", S, inst)
  ELSE
  LET g == get_connection(inst, fault = "conn") IN
  IF ~g.connection THEN Res(FALSE, "noconn", S, g.inst)
  ELSE IF fault = "sel_details" THEN Res(FALSE, "dberror", S, g.inst)
  ELSE IF ~HasDetails(request_id) THEN Res(FALSE, "nodetails", S, g.inst)
  ELSE IF fault = "sel_mirror" THEN Res(FALSE, "dberror", S, g.inst)
  ELSE
  LET found == ExistingRecords(S.pmpl, case_id, account_num) IN
  IF found = {}
    THEN LET u == update_request_progress_status(S, g.inst, request_id, account_num,
                                                 "Completed", TRUE, fault)
         IN Res(u.ok, IF u.ok THEN "norecord" ELSE u.outcome,
                IF u.ok THEN u.w ELSE S, g.inst)
  ELSE cancel_monitoring_updates(S, g.inst, request_data,
                                 S.pmpl[Min(found)].Monitor_Id, fault)

\* CancelMonitoring.cancel_monitoring_request: the MonitorCancel handler:
\* validation, the connection, step 1 (the request's details) and step 2
\* (the lookup of the mirror row by case_id and account_num), then the updates.
cancel_monitoring_request(S, inst, request_data, fault) ==
  LET request_id == request_data.Request_Id
      account_num == request_data.account_num
      case_id == request_data.case_id
  IN
  IF ~validate_inputs_case(account_num, request_id, case_id)
    THEN Res(FALSE, "invalid", S, inst)
  ELSE
  LET g == get_connection(inst, fault = "conn") IN
  IF ~g.connection THEN Res(FALSE, "noconn", S, g.inst)
  ELSE IF fault = "sel_details" THEN Res(FALSE, "dberror", S, g.inst)
  ELSE IF ~HasDetails(request_id) THEN Res(FALSE, "nodetails", S, g.inst)
  ELSE IF fault = "sel_mirror" THEN Res(FALSE, "dberror", S, g.inst)
  ELSE
  LET found == ExistingRecords(S.pmpl, case_id, account_num) IN
  IF found = {} THEN Res(FALSE, "norecord", S, g.inst)
  ELSE cancel_monitoring_updates(S, g.inst, request_data,
                                 S.pmpl[Min(found)].Monitor_Id, fault)

---------------------------------------------------------------------------
\* What can go wrong inside one invocation: "none", the connect of one
\* `with DBConnectionSingleton()` failing, or one statement raising
\* mysql.connector.Error (a lock wait timeout, a lost packet).
RegistrationFaults ==
  {"none", "conn", "sel_details", "conn_case", "upd_progress", "upd_log"}
StartFaults ==
  {"none", "conn_log", "ins_log", "conn_mirror", "ins_mirror", "conn_details",
   "sel_details", "ins_details", "conn_status"}
CloseFaults ==
  {"none", "conn", "ins_log", "ins_mirror", "sel_details", "ins_details",
   "upd_progress", "upd_log"}
CancelFaults ==
  {"none", "conn", "sel_details", "sel_mirror", "upd_mirror", "upd_monitor",
   "upd_details", "upd_progress", "upd_log"}

\* Request ids in ascending order (the order the fetch returns rows in).
Ascending == [i \in RequestIds |-> i]

\* get_open_orders with `WHERE Request_Status = 'Open'` left out.
get_open_orders_any_status(rpl, connection) ==
  IF ~connection THEN << >>
  ELSE SelectSeq(Ascending, LAMBDA r : r \in DOMAIN rpl)

\* Process_request.get_open_orders: the rows of request_progress_log that
\* are Open; an empty list when there is no connection.
get_open_orders(rpl, connection) ==
  IF ~connection THEN << >>
  ELSE SelectSeq(Ascending, LAMBDA r : r \in DOMAIN rpl /\ rpl[r] = "Open")

\* run_process: relevant_rows of one option.
relevant_rows(rows, option) ==
  SelectSeq(rows, LAMBDA r : Rows[r].Order_Id = option)

\* The rows of the options handled, dispatched in the order of the fetch
\* rather than option by option.
WorklistAsFetched(rows, option) ==
  SelectSeq(rows, LAMBDA r : Rows[r].Order_Id \in option .. (optionCount - 1))

\* Worklist going through the options up to and including optionCount.
RECURSIVE WorklistInclusive(_, _)
WorklistInclusive(rows, option) ==
  IF option > optionCount THEN << >>
  ELSE relevant_rows(rows, option) \o WorklistInclusive(rows, option + 1)

\* run_process: the rows of the cycle in the order they are handled,
\* option 1 to optionCount - 1.
RECURSIVE Worklist(_, _)
Worklist(rows, option) ==
  IF option >= optionCount THEN << >>
  ELSE relevant_rows(rows, option) \o Worklist(rows, option + 1)

Range(seq) == { seq[i] : i \in DOMAIN seq }

---------------------------------------------------------------------------
\* The rows every handler's validation accepts and whose operation type
\* process_selected_option has a case for.
WellFormed ==
  { r \in RequestIds :
      /\ Rows[r].Request_Id = r
      /\ Rows[r].Order_Id < optionCount
      /\ validate_inputs_case(Rows[r].account_num, Rows[r].Request_Id, Rows[r].case_id) }

\* The state when run_process starts on a queue holding the rows `present`,
\* all of them Open, and empty monitor tables.
InitWith(present) ==
  /\ present # {}
  /\ Cardinality(present) <= MaxQueue
  /\ request_log = [r \in present |-> "Open"]
  /\ request_progress_log = [r \in present |-> "Open"]
  /\ process_monitor_log = << >>
  /\ process_monitor_progress_log = << >>
  /\ process_monitor_details = << >>
  /\ instance = "None"
  /\ pc = "fetch"
  /\ open_orders = << >>
  /\ work = << >>
  /\ last = NoCall
  /\ updated = {}
  /\ collection = << >>

Init == \E present \in SUBSET WellFormed : InitWith(present)

\* run_process: the head of a cycle, with the store unreachable (`down`) or
\* not when get_open_orders asks for its connection. Nothing fetched: sleep
\* and fetch again.
FetchWith(down) ==
  /\ pc = "fetch"
  /\ LET g == get_connection(instance, down)
         rows == get_open_orders(request_progress_log, g.connection)
     IN /\ instance' = g.inst
        /\ open_orders' = rows
        /\ work' = Worklist(rows, 1)
        /\ pc' = IF rows = << >> THEN "fetch" ELSE "dispatch"
  /\ UNCHANGED collection
  /\ last' = NoCall
  /\ UNCHANGED << request_log, request_progress_log, process_monitor_log,
                  process_monitor_progress_log, process_monitor_details, updated >>

Fetch == \E down \in BOOLEAN : FetchWith(down)

\* Every handler but Registration returns True only when
\* update_request_progress_status returned True to it.
Updated(op, rid, res) ==
  IF op # "registration" /\ res.ret THEN updated \cup {rid} ELSE updated

\* Dispatched with no `except Exception` around the cycle: an exception that
\* leaves a batch routine ends run_process.
DispatchedRaiseStops(op, rid, res) ==
  /\ SetStore(res.S)
  /\ instance' = res.inst
  /\ UNCHANGED collection
  /\ last' = Call(op, rid, res.ret, res.outcome)
  /\ updated' = Updated(op, rid, res)
  /\ IF res.outcome = "raised"
       THEN work' = << >> /\ pc' = "stopped"
       ELSE work' = Tail(work) /\ pc' = "dispatch"
  /\ UNCHANGED open_orders

\* The effect of one handler invocation made by the loop.
Dispatched(op, rid, res) ==
  /\ SetStore(res.S)
  /\ instance' = res.inst
  /\ UNCHANGED collection
  /\ last' = Call(op, rid, res.ret, res.outcome)
  /\ updated' = Updated(op, rid, res)
  /\ IF res.outcome = "raised"
       THEN work' = << >> /\ pc' = "fetch"
       ELSE work' = Tail(work) /\ pc' = "dispatch"
  /\ UNCHANGED open_orders

\* customer_details_for_case_registration: one row of Order_Id 1.
DispatchRegistration ==
  /\ pc = "dispatch" /\ work # << >>
  /\ Rows[Head(work)].Order_Id = 1
  /\ \E api_ok \in BOOLEAN, fault \in RegistrationFaults :
       Dispatched("registration", Head(work),
                  process_single_document(Store, instance, Rows[Head(work)],
                                          api_ok, fault))

\* monitor_payment: one row of Order_Id 2.
DispatchMonitorStart ==
  /\ pc = "dispatch" /\ work # << >>
  /\ Rows[Head(work)].Order_Id = 2
  /\ Len(process_monitor_log) < MaxMonitorRows
  /\ \E fault \in StartFaults :
       Dispatched("start", Head(work),
                  process_monitoring_request(Store, instance, Rows[Head(work)], fault))

\* monitor_payment_cancel: calls cancel_monitoring_request on a MonitorPayment
\* object, which has no such method: AttributeError leaves the routine and
\* process_selected_option, and run_process's `except Exception` ends the cycle.
DispatchMonitorCancel ==
  /\ pc = "dispatch" /\ work # << >>
  /\ Rows[Head(work)].Order_Id = 3
  /\ Dispatched("monitor_payment_cancel", Head(work),
                Res(FALSE, "raised", Store, instance))

\* close_monitor_if_no_transaction: one row of Order_Id 4.
DispatchMonitorClose ==
  /\ pc = "dispatch" /\ work # << >>
  /\ Rows[Head(work)].Order_Id = 4
  /\ Len(process_monitor_log) < MaxMonitorRows
  /\ \E fault \in CloseFaults :
       Dispatched("close", Head(work),
                  close_monitor_if_no_transaction(Store, instance, Rows[Head(work)], fault))

\* run_process: the options are exhausted; sleep and start the next cycle.
EndCycle ==
  /\ pc = "dispatch" /\ work = << >>
  /\ pc' = "fetch"
  /\ UNCHANGED collection
  /\ last' = NoCall
  /\ UNCHANGED << request_log, request_progress_log, process_monitor_log,
                  process_monitor_progress_log, process_monitor_details,
                  instance, open_orders, work, updated >>

\* The effect of a handler invoked by a caller other than the loop.
Invoked(op, rid, res) ==
  /\ SetStore(res.S)
  /\ instance' = res.inst
  /\ UNCHANGED collection
  /\ last' = Call(op, rid, res.ret, res.outcome)
  /\ updated' = Updated(op, rid, res)
  /\ UNCHANGED << pc, open_orders, work >>

\* CancelMonitoring.cancel_monitoring_request invoked with a row of Order_Id 3
\* that was fetched as Open (it may have left Open since), between two cycles
\* of the loop.
CancelMonitoringCall ==
  \E r \in Range(open_orders), fault \in CancelFaults :
    /\ pc = "fetch"
    /\ Rows[r].Order_Id = 3
    /\ Invoked("cancel", r, cancel_monitoring_request(Store, instance, Rows[r], fault))

\* CloseMonitor.close_monitor_if_no_transaction invoked with a row of
\* Order_Id 4 that was fetched as Open, between two cycles of the loop.
CloseMonitorCall ==
  \E r \in Range(open_orders), fault \in CloseFaults :
    /\ pc = "fetch"
    /\ Rows[r].Order_Id = 4
    /\ Len(process_monitor_log) < MaxMonitorRows
    /\ Invoked("close_monitor", r,
               CloseMonitor_close_monitor_if_no_transaction(Store, instance, Rows[r], fault))

\* Another writer on the same database moves an Open queue row that this
\* process has fetched to a terminal status, in both tables at once.
ExternalWriter ==
  \E r \in Range(open_orders) :
    /\ request_progress_log[r] = "Open" /\ request_log[r] = "Open"
    /\ request_progress_log' = [request_progress_log EXCEPT ![r] = "Cancelled"]
    /\ request_log' = [request_log EXCEPT ![r] = "Cancelled"]
    /\ UNCHANGED collection
    /\ last' = NoCall
    /\ UNCHANGED << process_monitor_log, process_monitor_progress_log,
                    process_monitor_details, instance, pc, open_orders, work,
                    updated >>

Next ==
  \/ Fetch
  \/ DispatchRegistration
  \/ DispatchMonitorStart
  \/ DispatchMonitorCancel
  \/ DispatchMonitorClose
  \/ EndCycle
  \/ CancelMonitoringCall
  \/ CloseMonitorCall
  \/ ExternalWriter

Spec == Init /\ [][Next]_vars

---------------------------------------------------------------------------
\* Shorthands of the claims.
MonitorTables ==
  << process_monitor_log, process_monitor_progress_log, process_monitor_details >>
CloseOps == {"close", "close_monitor"}

\* C1 - Status Updater at-most-once: for a request whose status update has
\* returned True (and was committed), a further call of
\* update_request_progress_status for the same request and target status
\* returns False and leaves request_log and request_progress_log as they are.
C1_AtMostOnce ==
  \A r \in updated :
    \A status \in {"Completed", "Error"} :
      LET u == update_request_progress_status(Store, instance, r, Rows[r].account_num,
                                              status, TRUE, "none")
      IN /\ ~u.ok
         /\ u.w.rl = request_log
         /\ u.w.rpl = request_progress_log

\* C1 witness: a handler was invoked again for a request whose status update
\* had succeeded, and its status update matched no row.
C1_Witness ==
  /\ last.rid \in updated
  /\ last.op \in CloseOps \cup {"cancel"}
  /\ ~last.ret
  /\ last.outcome = "rowcount_progress"

\* C2 - Queue-mirror agreement: request_log.status equals
\* request_progress_log.status for every request, in every reachable state.
C2_QueueMirrorsAgree ==
  \A r \in DOMAIN request_log : request_log[r] = request_progress_log[r]

\* C3 - Single terminal transition: no step changes a request_log or
\* request_progress_log row whose status is not Open (so a row leaves Open
\* at most once).
C3_TerminalRowsKept ==
  [][ \A r \in DOMAIN request_log :
        /\ request_log[r] # "Open" => request_log'[r] = request_log[r]
        /\ request_progress_log[r] # "Open"
             => request_progress_log'[r] = request_progress_log[r] ]_vars

\* C3 witness: the Registration handler ran for a row that another writer
\* had cancelled after the fetch; its guarded UPDATE matched nothing.
C3_Witness ==
  /\ last.op = "registration"
  /\ last.outcome = "rowcount_progress"
  /\ request_progress_log[last.rid] = "Cancelled"
  /\ request_log[last.rid] = "Cancelled"

\* The MonitorRecords of a (case_id, account_num) before the step.
RecordsOf(rid) ==
  ExistingRecords(process_monitor_log, Rows[rid].case_id, Rows[rid].account_num)

\* Outcomes that come from the environment of an invocation: no connection,
\* a statement that raised.
EnvFailures == {"noconn", "dberror", "raised"}

\* C4 - MonitorStart atomicity: a MonitorStart invocation that returns
\* False leaves no row of its own in process_monitor_log,
\* process_monitor_progress_log or process_monitor_details.
C4_StartAtomic ==
  [][ (last'.op = "start" /\ ~last'.ret) => MonitorTables' = MonitorTables ]_vars

\* C5 - MonitorClose atomicity: a MonitorClose invocation for an Open record
\* that returns False leaves no row of its own in the three monitor tables
\* and the record Open in both queue tables.
C5_CloseAtomic ==
  [][ ( /\ last'.op \in CloseOps
        /\ ~last'.ret
        /\ request_log[last'.rid] = "Open"
        /\ request_progress_log[last'.rid] = "Open" )
      => ( /\ MonitorTables' = MonitorTables
           /\ request_log'[last'.rid] = "Open"
           /\ request_progress_log'[last'.rid] = "Open" ) ]_vars

\* C6 - MonitorCancel rollback on row-count mismatch: when one of the cancel
\* handler's updates (mirror, monitor row, details, either queue table)
\* affects a number of rows other than one, the handler returns False and
\* all five tables are as they were before the invocation.
RowCountOutcomes ==
  {"rowcount_mirror", "rowcount_monitor", "rowcount_details",
   "rowcount_progress", "rowcount_log"}

C6_CancelRollback ==
  [][ (last'.op = "cancel" /\ last'.outcome \in RowCountOutcomes)
      => (~last'.ret /\ Store' = Store) ]_vars

\* C6 witness: a cancel invocation updated the mirror and the monitor row,
\* then found no details row for the Monitor_Id, and returned False.
C6_Witness ==
  /\ last.op = "cancel"
  /\ last.outcome = "rowcount_details"
  /\ ~last.ret
  /\ RecordsOf(last.rid) # {}

\* C7 - MonitorStart success scenario: for an Open record of type 2 with
\* valid fields and a payload row, a reachable store and no statement error,
\* the handler adds one MonitorRecord with status Open, its mirror and its
\* detail row, both queue rows become Completed, and it returns True.
C7_StartSucceeds ==
  [][ ( /\ last'.op = "start"
        /\ request_log[last'.rid] = "Open"
        /\ request_progress_log[last'.rid] = "Open"
        /\ HasDetails(last'.rid)
        /\ last'.outcome \notin EnvFailures )
      => ( /\ last'.ret
           /\ Len(process_monitor_log') = Len(process_monitor_log) + 1
           /\ process_monitor_log'[Len(process_monitor_log')].monitor_status = "Open"
           /\ Len(process_monitor_progress_log') = Len(process_monitor_progress_log) + 1
           /\ Len(process_monitor_details') = Len(process_monitor_details) + 1
           /\ request_log'[last'.rid] = "Completed"
           /\ request_progress_log'[last'.rid] = "Completed" ) ]_vars

\* C8 - MonitorCancel lookup miss: when no MonitorRecord matches the record's
\* (case_id, account_num), the cancel handler returns False and writes to no
\* table: the monitor tables are unchanged and the queue rows stay as they
\* were (Open).
C8_CancelMiss ==
  [][ (last'.op = "cancel" /\ RecordsOf(last'.rid) = {})
      => (~last'.ret /\ Store' = Store) ]_vars

\* C8 witness: a cancel invocation for an Open record got as far as the
\* lookup and found no record.
C8_Witness ==
  /\ last.op = "cancel"
  /\ last.outcome = "norecord"
  /\ ~last.ret
  /\ RecordsOf(last.rid) = {}
  /\ request_log[last.rid] = "Open"
  /\ request_progress_log[last.rid] = "Open"

C10_OneRecordPerStart ==
  \A r \in RequestIds :
    Rows[r].Order_Id = 2
      => Cardinality({ i \in DOMAIN process_monitor_log :
                         process_monitor_log[i].Request_Id = r }) <= 1

---------------------------------------------------------------------------
\* The handler the spec routes an operation type to.
HandlerOf(order_id) ==
  CASE order_id = 1 -> "registration"
    [] order_id = 2 -> "start"
    [] order_id = 3 -> "cancel"
    [] order_id = 4 -> "close"
    [] OTHER -> "none"

\* C11 - Routing of known types: every step that takes a fetched record of
\* type 1..4 off the cycle's work invokes the handler of its type for it
\* (Registration, MonitorStart, MonitorCancel, MonitorClose) and leaves the
\* records behind it to be dispatched in the same cycle.
C11_RoutesKnownTypes ==
  [][ (pc = "dispatch" /\ work # << >> /\ work' # work)
      => ( /\ last'.op = HandlerOf(Rows[Head(work)].Order_Id)
           /\ last'.rid = Head(work)
           /\ work' = Tail(work) ) ]_vars

---------------------------------------------------------------------------
\* The poll loop on its own, on a queue that may also hold rows of an
\* unrecognized type and rows with missing or malformed fields, with the two
\* ways the process stops: an interrupt (KeyboardInterrupt) and a crash
\* followed by a restart.
InitLoop == \E present \in SUBSET RequestIds : InitWith(present)

\* The statements of a handler before which the process can stop, named as
\* the faults are. Option 3 has none: its call raises before any statement.
StopPoints(order_id) ==
  CASE order_id = 1 -> RegistrationFaults \ {"none"}
    [] order_id = 2 -> StartFaults \ {"none"}
    [] order_id = 4 -> CloseFaults \ {"none"}
    [] OTHER -> {}

\* process_selected_option for one row: the handler the row's option runs.
\* With a stop point for `fault` the store of the result is what is
\* committed when the process stops there (nothing a handler does after a
\* failure writes; what is not committed goes with the connection).
process_selected_option(S, inst, row, api_ok, fault) ==
  CASE row.Order_Id = 1 -> process_single_document(S, inst, row, api_ok, fault)
    [] row.Order_Id = 2 -> process_monitoring_request(S, inst, row, fault)
    [] row.Order_Id = 4 -> close_monitor_if_no_transaction(S, inst, row, fault)
    [] OTHER -> Res(FALSE, "raised", S, inst)

\* The process stops inside the handler of the row at the head of the work.
StoppedInHandler(op) ==
  /\ pc = "dispatch" /\ work # << >>
  /\ Rows[Head(work)].Order_Id \in {2, 4} => Len(process_monitor_log) < MaxMonitorRows
  /\ \E api_ok \in BOOLEAN, point \in StopPoints(Rows[Head(work)].Order_Id) :
       LET res == process_selected_option(Store, instance, Rows[Head(work)], api_ok, point)
       IN /\ ~res.ret
          /\ SetStore(res.S)
          /\ UNCHANGED collection
          /\ last' = Call(op, Head(work), FALSE, point)
  /\ instance' = "None"
  /\ work' = << >>
  /\ UNCHANGED updated

\* The process is killed (or the host goes down) inside a handler and is
\* started again: run_process begins with a fetch.
Crash ==
  /\ StoppedInHandler("crash")
  /\ pc' = "fetch"
  /\ open_orders' = << >>

\* KeyboardInterrupt inside a handler: no handler catches it (they catch
\* Exception), the connection scope closes the connection, and run_process
\* breaks out of its loop.
InterruptHandler ==
  /\ StoppedInHandler("interrupt")
  /\ pc' = "stopped"
  /\ UNCHANGED open_orders

\* KeyboardInterrupt between two invocations or during a sleep.
Interrupt ==
  /\ pc \in {"fetch", "dispatch"}
  /\ pc' = "stopped"
  /\ UNCHANGED collection
  /\ last' = Call("interrupt", 0, FALSE, "interrupt")
  /\ UNCHANGED << request_log, request_progress_log, process_monitor_log,
                  process_monitor_progress_log, process_monitor_details,
                  instance, open_orders, work, updated >>

NextLoop ==
  \/ Fetch
  \/ DispatchRegistration
  \/ DispatchMonitorStart
  \/ DispatchMonitorCancel
  \/ DispatchMonitorClose
  \/ EndCycle
  \/ Crash
  \/ InterruptHandler
  \/ Interrupt

LoopSpec == InitLoop /\ [][NextLoop]_vars

---------------------------------------------------------------------------
\* The operation types process_selected_option has a case for.
KnownTypes == 1 .. (optionCount - 1)

\* C12 - Unrecognized operation type: a queue record whose operation type is
\* not in 1..4 is never part of a cycle's work (so no batch routine counts
\* it), no handler is invoked and nothing is raised or stopped for it, no
\* monitor row is written for it, and it is Open in both queue tables in
\* every state the process reaches.
C12_UnknownTypeUntouched ==
  \A r \in DOMAIN request_log :
    Rows[r].Order_Id \notin KnownTypes
      => /\ request_log[r] = "Open"
         /\ request_progress_log[r] = "Open"
         /\ r \notin Range(work)
         /\ last.rid # r
         /\ \A i \in DOMAIN process_monitor_log :
              process_monitor_log[i].Request_Id # Rows[r].Request_Id

\* C12 witness: a cycle that fetched a record of an unrecognized type
\* together with another record has handled the other one successfully and
\* reached its end.
C12_Witness ==
  /\ pc = "dispatch" /\ work = << >>
  /\ last.ret
  /\ \E r \in Range(open_orders) :
       /\ Rows[r].Order_Id \notin KnownTypes
       /\ request_progress_log[r] = "Open"

---------------------------------------------------------------------------
\* The invocations the poll loop makes (the batch routines of options 1 to 4).
LoopOps == {"registration", "start", "monitor_payment_cancel", "close"}

\* C13 - Idempotent re-fetch: the fetch that opens a cycle returns no record
\* that is in a terminal status (in either queue table), and the loop invokes
\* a handler only for a record that the fetch of the running cycle returned,
\* once: a record in a terminal status is not handled in any later cycle.
C13_TerminalNotRefetched ==
  [][ /\ (pc = "fetch" /\ pc' = "dispatch")
           => /\ Range(work') = Range(open_orders')
              /\ \A r \in Range(open_orders') :
                   request_log[r] = "Open" /\ request_progress_log[r] = "Open"
      /\ last'.op \in LoopOps
           => /\ pc = "dispatch"
              /\ last'.rid = Head(work)
              /\ last'.rid \in Range(open_orders)
              /\ last'.rid \notin Range(work') ]_vars

\* C13 witness: a fetch has just returned the Open records of a queue that
\* also holds a record some handler completed in an earlier cycle.
C13_Witness ==
  /\ pc = "dispatch"
  /\ work = Worklist(open_orders, 1)
  /\ open_orders # << >>
  /\ \E r \in updated :
       /\ request_progress_log[r] = "Completed"
       /\ request_log[r] = "Completed"
       /\ r \notin Range(open_orders)

---------------------------------------------------------------------------
\* C14 - Agreement after success: after an invocation that reports success
\* (process_case returned True, or update_request_progress_status returned
\* True and the handler committed), request_log and request_progress_log
\* both hold the requested status, Completed, for the request.
C14_AgreementAfterSuccess ==
  [][ (last'.op # "none" /\ last'.ret)
      => /\ request_log'[last'.rid] = "Completed"
         /\ request_progress_log'[last'.rid] = "Completed" ]_vars

\* C14 witness: a Registration invocation has returned True on a queue where
\* a monitor handler's status update had succeeded before.
C14_Witness ==
  /\ last.op = "registration"
  /\ last.ret
  /\ updated # {}
  /\ request_log[last.rid] = "Completed"
  /\ request_progress_log[last.rid] = "Completed"

---------------------------------------------------------------------------
\* The status updater on its own. The queue tables are tables of a shared
\* database: each row starts in any status, the two tables independently
\* (nothing in the process keeps them equal, see C2): Open, or a terminal
\* status another writer gave it.
QueueStatuses == {"Open", "Cancelled"}

\* The updater reads a row's Request_Id and account_num only: the rows of
\* the first two operation types hold every shape of them.
UpdaterRows == { r \in RequestIds : Rows[r].Order_Id <= 2 }

InitTables ==
  /\ \E present \in SUBSET UpdaterRows :
       /\ present # {}
       /\ Cardinality(present) <= MaxQueue
       /\ request_log \in [present -> QueueStatuses]
       /\ request_progress_log \in [present -> QueueStatuses]
  /\ process_monitor_log = << >>
  /\ process_monitor_progress_log = << >>
  /\ process_monitor_details = << >>
  /\ instance = "None"
  /\ pc = "fetch"
  /\ open_orders = << >>
  /\ work = << >>
  /\ last = NoCall
  /\ updated = {}
  /\ collection = << >>

\* A caller's step 'update the request status' on the connection it holds:
\* update_request_progress_status with that connection, then commit when it
\* returned True and rollback when it returned False, as the close and the
\* cancel handler do.
UpdateStatusCall ==
  \E r \in DOMAIN request_log, status \in {"Completed", "Error"},
     fault \in {"none", "upd_progress", "upd_log"} :
    LET t0 == Begin(Store)
        u == update_request_progress_status(t0.w, instance, Rows[r].Request_Id,
                                            Rows[r].account_num, status, TRUE, fault)
        t1 == [t0 EXCEPT !.w = u.w]
    IN /\ SetStore(IF u.ok THEN Commit(t1).c ELSE Rollback(t1).c)
       /\ UNCHANGED collection
       /\ last' = Call("update_status", r, u.ok, u.outcome)
       /\ updated' = IF u.ok THEN updated \cup {r} ELSE updated
       /\ UNCHANGED << instance, pc, open_orders, work >>

UpdaterSpec == InitTables /\ [][UpdateStatusCall]_vars

\* C15 - Status Updater refuses partial dual-write: a call returns True only
\* when its guarded UPDATE matched exactly one row of request_progress_log
\* and exactly one row of request_log (and then both rows hold one and the
\* same new status); when either count is not one it returns False, and once
\* the caller has rolled back both tables are as they were before the call,
\* so neither holds a status the call wrote.
C15_NoPartialDualWrite ==
  [][ last'.op = "update_status"
      => LET r == last'.rid
             n1 == Cardinality(QueueMatch(request_progress_log, Rows[r].Request_Id,
                                          Rows[r].account_num))
             n2 == Cardinality(QueueMatch(request_log, Rows[r].Request_Id,
                                          Rows[r].account_num))
         IN /\ last'.ret
                 => /\ n1 = 1 /\ n2 = 1
                    /\ request_log'[r] = request_progress_log'[r]
                    /\ request_log'[r] \in {"Completed", "Error"}
            /\ (n1 # 1 \/ n2 # 1)
                 => /\ ~last'.ret
                    /\ request_log' = request_log
                    /\ request_progress_log' = request_progress_log ]_vars

\* C15 witness: the UPDATE of request_progress_log matched the Open row, the
\* UPDATE of request_log matched none, the call returned False and after the
\* rollback request_progress_log is Open again.
C15_Witness ==
  /\ last.op = "update_status"
  /\ last.outcome = "rowcount_log"
  /\ ~last.ret
  /\ request_progress_log[last.rid] = "Open"
  /\ request_log[last.rid] # "Open"

---------------------------------------------------------------------------
\* The handlers that end with a status update (all but Registration's own
\* writes in process_case).
StatusUpdaters == {"start", "close", "close_monitor", "cancel"}

\* C16 - Guard failure under a concurrent writer: when another writer has
\* moved the queue row out of Open after it was fetched, the handler invoked
\* for it returns False and leaves the store as it was before the invocation:
\* no monitor, mirror or detail row created or changed, queue rows untouched.
C16_GuardFailureLeavesNothing ==
  [][ ( /\ last'.op \in StatusUpdaters
        /\ request_progress_log[last'.rid] = "Cancelled"
        /\ request_log[last'.rid] = "Cancelled" )
      => (~last'.ret /\ Store' = Store) ]_vars

---------------------------------------------------------------------------
\* C17 - Crash mid-handler leaves the record Open: when the process stops
\* inside the handler of a record that was Open in both queue tables, before
\* the handler has run to its end, the record is still Open in both tables
\* (so the fetch after the restart returns it).
C17_CrashLeavesOpen ==
  [][ ( /\ last'.op = "crash"
        /\ request_log[last'.rid] = "Open"
        /\ request_progress_log[last'.rid] = "Open" )
      => ( /\ request_log'[last'.rid] = "Open"
           /\ request_progress_log'[last'.rid] = "Open"
           /\ last'.rid \in Range(get_open_orders(request_progress_log', TRUE)) ) ]_vars

---------------------------------------------------------------------------
\* C18 - Poll loop is never fatal: run_process is left (pc = "stopped") only
\* by an interrupt; a step in which an exception leaves a batch routine ends
\* the cycle and puts the loop back at its head, where the next step of the
\* loop reads the Open records anew.
C18_LoopNeverFatal ==
  [][ /\ pc' \in {"fetch", "dispatch", "stopped"}
      /\ (pc' = "stopped" /\ pc # "stopped") => last'.op = "interrupt"
      /\ last'.outcome = "raised"
           => /\ pc' = "fetch"
              /\ work' = << >>
              /\ last'.op \in LoopOps
      /\ (pc = "fetch" /\ pc' # "stopped")
           => \E down \in BOOLEAN :
                open_orders' = get_open_orders(request_progress_log,
                                               get_connection(instance, down).connection) ]_vars

\* C18 witness: the uncaught DatabaseConnectionError of MonitorStart's third
\* step has ended a cycle, and the loop is at its head again.
C18_Witness ==
  /\ last.op = "start"
  /\ last.outcome = "raised"
  /\ pc = "fetch"
  /\ open_orders # << >>

---------------------------------------------------------------------------
\* The process under the scheduling the code has: run_process is one thread
\* that goes on running, so each step of the loop that stays possible is
\* taken; and the store is reachable again and again when the loop asks for
\* a connection (a fetch that finds the store reachable keeps happening
\* whenever it would change anything).
RecoverySpec ==
  /\ Spec
  /\ WF_vars(Fetch)
  /\ WF_vars(DispatchRegistration)
  /\ WF_vars(DispatchMonitorStart)
  /\ WF_vars(DispatchMonitorCancel)
  /\ WF_vars(DispatchMonitorClose)
  /\ WF_vars(EndCycle)
  /\ SF_vars(FetchWith(FALSE))

\* The state a fetch that obtained a connection leaves: the singleton
\* released, the Open records read.
FetchedOpenRecords ==
  /\ instance = "None"
  /\ last = NoCall
  /\ open_orders = get_open_orders(request_progress_log, TRUE)

\* C19 - Recovery from connectivity failure: once acquiring the connection
\* has failed (the singleton holds an instance without a connection), with
\* the store reachable again and the process not restarted, a later fetch
\* obtains a connection and returns the Open records. (Stated for the states
\* in which process_monitor_log has room, so that no handler of the model is
\* held back by MaxMonitorRows.)
C19_Recovers ==
  (instance = "failed" /\ Len(process_monitor_log) < MaxMonitorRows)
    ~> FetchedOpenRecords

---------------------------------------------------------------------------
\* A row with a missing or malformed field, by the rules of _validate_inputs:
\* request_id and account_num for every handler, case_id as well for
\* MonitorCancel and MonitorClose.
Malformed(r) ==
  IF Rows[r].Order_Id \in {3, 4}
    THEN ~validate_inputs_case(Rows[r].account_num, Rows[r].Request_Id, Rows[r].case_id)
    ELSE ~validate_inputs(Rows[r].account_num, Rows[r].Request_Id)

\* C20 - Validation failure: a handler invoked for a record with a missing or
\* malformed request_id or account_num (or case_id, for MonitorCancel and
\* MonitorClose) returns False and writes nothing: all five tables are as
\* before, so the record is still Open in both queue tables and is fetched
\* again.
C20_ValidationFailureWritesNothing ==
  [][ (last'.op \in {"registration", "start", "close"} /\ Malformed(last'.rid))
      => ( /\ ~last'.ret
           /\ Store' = Store
           /\ last'.rid \in Range(get_open_orders(request_progress_log', TRUE)) ) ]_vars

---------------------------------------------------------------------------
\* C21: when the incident API call fails (process_incident returns False)
\* the Registration handler reports failure and leaves the record with
\* status Error in request_log and in request_progress_log, so that the
\* fetch of a later cycle no longer returns it.
C21_ApiFailureMarksError ==
  [][ (last'.op = "registration" /\ last'.outcome = "api_failed")
        => /\ ~last'.ret
           /\ request_log'[last'.rid] = "Error"
           /\ request_progress_log'[last'.rid] = "Error"
           /\ last'.rid \notin Range(get_open_orders(request_progress_log', TRUE))
    ]_vars

C21_Witness ==
  /\ last.op = "registration"
  /\ last.outcome = "api_failed"
  /\ request_log[last.rid] = "Error"
  /\ request_progress_log[last.rid] = "Error"

---------------------------------------------------------------------------
\* C22: no handler invocation ends with an exception that leaves the
\* handler: when the store connection is unavailable, a lookup misses, a
\* row count is not one or validation fails, the handler returns a failure
\* outcome to the dispatcher.
HandlerOps == {"registration", "start", "close"}

C22_HandlersNeverRaise ==
  [][ last'.op \in HandlerOps => last'.outcome # "raised" ]_vars

---------------------------------------------------------------------------
\* C23: an interrupt ends the loop only at a cycle boundary, never while a
\* handler is running: the step on which run_process stops changes no
\* table, so that no handler's sequence of writes is left half applied.
C23_InterruptLeavesNoPartialWrites ==
  [][ (pc' = "stopped" /\ pc # "stopped")
        => UNCHANGED << request_log, request_progress_log, process_monitor_log,
                        process_monitor_progress_log, process_monitor_details >>
    ]_vars

---------------------------------------------------------------------------
\* C24: within a cycle two handler invocations never follow one another
\* without the inter-item delay between them, whether the earlier one
\* succeeded or failed.
C24_DelayBetweenInvocations ==
  [][ (last.op \in LoopOps /\ last'.op \in LoopOps /\ pc = "dispatch")
        => last.slept ]_vars

---------------------------------------------------------------------------
\* C25: a MonitorClose invocation that returns True has added exactly one
\* row to process_monitor_log and one to process_monitor_progress_log, both
\* with the generated Monitor_Id and monitor_status Closed, and one row to
\* process_monitor_details for that Monitor_Id; it has set the record to
\* Completed in request_log and request_progress_log; every row the three
\* monitor tables held before is unchanged.
AddsOneRow(before, after) ==
  /\ Len(after) = Len(before) + 1
  /\ SubSeq(after, 1, Len(before)) = before

C25_CloseSuccessEffect ==
  [][ (last'.op \in CloseOps /\ last'.ret)
        => /\ AddsOneRow(process_monitor_log, process_monitor_log')
           /\ AddsOneRow(process_monitor_progress_log, process_monitor_progress_log')
           /\ AddsOneRow(process_monitor_details, process_monitor_details')
           /\ LET record == process_monitor_log'[Len(process_monitor_log')]
                  mirror == process_monitor_progress_log'[Len(process_monitor_progress_log')]
                  detail == process_monitor_details'[Len(process_monitor_details')]
              IN /\ record.Monitor_Id = Len(process_monitor_log')
                 /\ record.Request_Id = last'.rid
                 /\ record.monitor_status = "Closed"
                 /\ mirror = record
                 /\ detail.Monitor_Id = record.Monitor_Id
                 /\ \A i \in 1 .. Len(process_monitor_log) :
                      process_monitor_log[i].Monitor_Id # record.Monitor_Id
           /\ request_log'[last'.rid] = "Completed"
           /\ request_progress_log'[last'.rid] = "Completed"
    ]_vars

C25_Witness ==
  /\ last.op \in CloseOps /\ last.ret
  /\ Len(process_monitor_log) = 2
  /\ process_monitor_log[1].monitor_status = "Open"
  /\ process_monitor_log[2].monitor_status = "Closed"
  /\ Len(process_monitor_details) = 2

---------------------------------------------------------------------------
\* C26: a MonitorCancel invocation that found a MonitorRecord for the
\* record's (case_id, account_num) and returned True has set monitor_status
\* to Cancelled on that MonitorRecord and on its mirror of the same
\* Monitor_Id, has set the record to Completed in both queue tables, and has
\* added no row to any monitor table. Of the detail row, slots 3 to 10 are
\* cleared and slots 1 and 2 hold para_1 and para_2 of the cancel request's
\* payload (they are overwritten, not kept).
CancelledRecord(rid) ==
  LET found == { i \in DOMAIN process_monitor_progress_log :
                   /\ process_monitor_progress_log[i].case_id = Rows[rid].case_id
                   /\ process_monitor_progress_log[i].account_num = Rows[rid].account_num }
  IN process_monitor_progress_log[CHOOSE i \in found : \A j \in found : i <= j].Monitor_Id

CancelSuccess == last'.op = "cancel" /\ last'.ret

---------------------------------------------------------------------------
\* The loop with nothing going wrong around it: every connect succeeds, no
\* statement raises, the incident API answers with success, and the process
\* is neither killed nor interrupted. Each step is then determined by the
\* state, and fairness says only that run_process keeps running.
RoutineOf(order_id) ==
  CASE order_id = 1 -> "registration"
    [] order_id = 2 -> "start"
    [] order_id = 3 -> "monitor_payment_cancel"
    [] OTHER -> "close"

DispatchSteady ==
  /\ pc = "dispatch" /\ work # << >>
  /\ Rows[Head(work)].Order_Id \in {2, 4} => Len(process_monitor_log) < MaxMonitorRows
  /\ Dispatched(RoutineOf(Rows[Head(work)].Order_Id), Head(work),
                process_selected_option(Store, instance, Rows[Head(work)], TRUE, "none"))

NextSteady ==
  \/ FetchWith(FALSE)
  \/ DispatchSteady
  \/ EndCycle

SteadySpec == Init /\ [][NextSteady]_vars /\ WF_vars(NextSteady)

\* An Open record of type 1..4 with valid fields and a payload row, for which,
\* if it is a cancel, a MonitorRecord of its case and account exists.
Eligible(r) ==
  /\ r \in DOMAIN request_progress_log
  /\ request_log[r] = "Open" /\ request_progress_log[r] = "Open"
  /\ HasDetails(r)
  /\ Rows[r].Order_Id = 3 =>
       ExistingRecords(process_monitor_progress_log, Rows[r].case_id,
                       Rows[r].account_num) # {}

Terminal(r) ==
  /\ r \in DOMAIN request_progress_log
  /\ request_log[r] # "Open" /\ request_progress_log[r] # "Open"

\* C27: with the loop scheduled fairly, the store reachable, every write
\* matching one row and the API answering with success, every such record
\* eventually has a terminal status in request_log and request_progress_log.
\* Stated here for the records of type 4, which the model never holds back
\* for want of room in process_monitor_log when they come to be dispatched.
C27_EventualCompletion ==
  \A r \in WellFormed :
    (Eligible(r) /\ Rows[r].Order_Id = 4) ~> Terminal(r)

---------------------------------------------------------------------------
\* C28: a handler invocation that fails for one record leaves the records
\* fetched with it that are still to be dispatched (the rest of its type
\* and the later types) to be dispatched in the same cycle.
C28_FailureKeepsRestOfCycle ==
  [][ (last'.op \in HandlerOps /\ ~last'.ret /\ Tail(work) # << >>)
        => (pc' = "dispatch" /\ work' = Tail(work)) ]_vars

---------------------------------------------------------------------------
\* C29: the records fetched in one cycle are dispatched by type in
\* ascending order, whatever their order in the fetch, and from the one
\* snapshot the cycle fetched: a cycle starts with all the snapshot's
\* records of types 1..4 to dispatch; at every point of it the records still
\* to be dispatched are records of the snapshot, none twice, in ascending
\* order of type (and in fetch order within a type); each invocation is for
\* the first of them, is of that record's type, leaves the snapshot as it
\* was, and no record of a lower type remains behind it.
TypeOf(r) == Rows[r].Order_Id

PositionIn(seq, r) == CHOOSE i \in DOMAIN seq : seq[i] = r

C29_InCycleOrder ==
  pc = "dispatch" =>
    /\ Range(work) \subseteq Range(open_orders)
    /\ \A i, j \in DOMAIN work :
         i < j => /\ work[i] # work[j]
                  /\ TypeOf(work[i]) <= TypeOf(work[j])
                  /\ TypeOf(work[i]) = TypeOf(work[j])
                       => PositionIn(open_orders, work[i]) < PositionIn(open_orders, work[j])
    /\ last = NoCall =>
         Range(work) = { r \in Range(open_orders) : TypeOf(r) \in KnownTypes }
    /\ last.op \in LoopOps =>
         /\ last.op = RoutineOf(TypeOf(last.rid))
         /\ last.rid \in Range(open_orders)
         /\ last.rid \notin Range(work)
         /\ \A i \in DOMAIN work : TypeOf(last.rid) <= TypeOf(work[i])

C29_Witness ==
  /\ pc = "dispatch"
  /\ last.op = "start"
  /\ work # << >>
  /\ Head(work) < last.rid
  /\ PositionIn(open_orders, Head(work)) < PositionIn(open_orders, last.rid)

---------------------------------------------------------------------------
\* C30: the process writes no status but Completed and Error to a queue
\* row, and only to the row of the record the invocation is for; Error is
\* written by the Registration handler alone; a MonitorStart, MonitorCancel
\* or MonitorClose invocation that reports failure leaves request_log and
\* request_progress_log as they were, so that a record that was Open is
\* still Open in both.
WrittenStatuses == {"Completed", "Error"}

C30_StatusesWritten ==
  [][ last'.op # "none"
        => /\ \A r \in DOMAIN request_log :
                request_log'[r] # request_log[r]
                  => /\ r = last'.rid
                     /\ request_log'[r] \in WrittenStatuses
                     /\ request_log'[r] = "Error" => last'.op = "registration"
           /\ \A r \in DOMAIN request_progress_log :
                request_progress_log'[r] # request_progress_log[r]
                  => /\ r = last'.rid
                     /\ request_progress_log'[r] \in WrittenStatuses
                     /\ request_progress_log'[r] = "Error" => last'.op = "registration"
           /\ (last'.op \in StatusUpdaters /\ ~last'.ret)
                => /\ request_log' = request_log
                   /\ request_progress_log' = request_progress_log
    ]_vars

\* A close that failed at its status update, after its inserts, and a
\* Registration that wrote Error.
C30_Witness ==
  /\ last.op \in CloseOps /\ ~last.ret
  /\ \E i \in DOMAIN process_monitor_details :
       process_monitor_details[i].Monitor_Id = Len(process_monitor_log)
  /\ process_monitor_log[Len(process_monitor_log)].Request_Id = last.rid
  /\ request_log[last.rid] = "Open" /\ request_progress_log[last.rid] = "Open"
  /\ \E r \in DOMAIN request_log : request_log[r] = "Error"

---------------------------------------------------------------------------
\* The per-type batch routines of Process_request
\* (customer_details_for_case_registration, monitor_payment,
\* monitor_payment_cancel, close_monitor_if_no_transaction) called with a
\* list of rows: each goes through the rows, skips those of another
\* Order_Id, runs the handler for the others and counts the row as processed
\* when the handler reported success, as an error otherwise. An exception
\* that leaves the handler leaves the routine, which then returns nothing.
\* `inputs` gives, for each position of `rows`, what happens around that
\* row's invocation (the API's answer and the fault).
MaxBatch == 2

FaultsOf(option) ==
  CASE option = 1 -> RegistrationFaults
    [] option = 2 -> StartFaults
    [] option = 4 -> CloseFaults
    [] OTHER -> {"none"}

BatchStart(S, inst) ==
  [S |-> S, inst |-> inst, processed_count |-> 0, error_count |-> 0,
   results |-> << >>, raised |-> FALSE]

\* A routine that skips a row whose handler failed without counting it.
RECURSIVE batch_routine_uncounted_failure(_, _, _, _)
batch_routine_uncounted_failure(option, rows, inputs, acc) ==
  IF rows = << >> THEN acc
  ELSE IF Rows[Head(rows)].Order_Id # option
    THEN batch_routine_uncounted_failure(option, Tail(rows), Tail(inputs), acc)
  ELSE
    LET res == process_selected_option(acc.S, acc.inst, Rows[Head(rows)],
                                       Head(inputs).api_ok, Head(inputs).fault)
    IN IF res.outcome = "raised"
         THEN [acc EXCEPT !.S = res.S, !.inst = res.inst, !.raised = TRUE]
         ELSE batch_routine_uncounted_failure(option, Tail(rows), Tail(inputs),
                [acc EXCEPT !.S = res.S, !.inst = res.inst,
                            !.results = Append(@, res.ret),
                            !.processed_count = IF res.ret THEN @ + 1 ELSE @])

RECURSIVE batch_routine(_, _, _, _)
batch_routine(option, rows, inputs, acc) ==
  IF rows = << >> THEN acc
  ELSE IF Rows[Head(rows)].Order_Id # option
    THEN batch_routine(option, Tail(rows), Tail(inputs), acc)
  ELSE
    LET res == process_selected_option(acc.S, acc.inst, Rows[Head(rows)],
                                       Head(inputs).api_ok, Head(inputs).fault)
    IN IF res.outcome = "raised"
         THEN [acc EXCEPT !.S = res.S, !.inst = res.inst, !.raised = TRUE]
         ELSE batch_routine(option, Tail(rows), Tail(inputs),
                [acc EXCEPT !.S = res.S, !.inst = res.inst,
                            !.results = Append(@, res.ret),
                            !.processed_count = IF res.ret THEN @ + 1 ELSE @,
                            !.error_count = IF res.ret THEN @ ELSE @ + 1])

\* The lists of distinct rows of the queue, in any order.
RowLists ==
  UNION { { s \in [1 .. Cardinality(sub) -> sub] :
              \A i, j \in DOMAIN s : i # j => s[i] # s[j] } :
          sub \in { x \in SUBSET DOMAIN request_progress_log :
                      Cardinality(x) <= MaxBatch } }

\* The positions of `rows` that hold a row of the routine's Order_Id.
Matching(rows, option) == { i \in DOMAIN rows : Rows[rows[i]].Order_Id = option }

\* CreateIncident.process_incident is called by the Registration handler only.
ApiAnswers(option) == IF option = 1 THEN BOOLEAN ELSE {TRUE}

\* The first call of a batch routine after the process has started, with
\* what it returned kept in `last`.
BatchCall ==
  \E option \in KnownTypes, rows \in RowLists :
    \E around \in [Matching(rows, option) ->
                     [api_ok : ApiAnswers(option), fault : FaultsOf(option)]] :
      /\ last = NoCall
      /\ option \in {2, 4}
           => Len(process_monitor_log) + Len(rows) <= MaxMonitorRows
      /\ LET inputs == [i \in DOMAIN rows |->
                          IF i \in DOMAIN around THEN around[i]
                          ELSE [api_ok |-> TRUE, fault |-> "none"]]
             out == batch_routine(option, rows, inputs, BatchStart(Store, instance))
         IN /\ SetStore(out.S)
            /\ instance' = out.inst
            /\ UNCHANGED collection
            /\ last' = [op |-> "batch", rid |-> 0, ret |-> ~out.raised,
                        outcome |-> IF out.raised THEN "raised" ELSE "returned",
                        slept |-> FALSE, option |-> option, rows |-> rows,
                        results |-> out.results,
                        processed_count |-> out.processed_count,
                        error_count |-> out.error_count]
      /\ UNCHANGED << pc, open_orders, work, updated >>

BatchSpec == InitLoop /\ [][BatchCall]_vars

\* C31: whenever a batch routine returns, processed_count + error_count is
\* the number of rows of its input whose Order_Id is the routine's type, and
\* processed_count is the number of those rows whose handler reported
\* success.
C31_CountConservation ==
  (last.op = "batch" /\ last.outcome = "returned")
    => /\ last.processed_count + last.error_count
            = Cardinality(Matching(last.rows, last.option))
       /\ last.processed_count
            = Cardinality({ i \in DOMAIN last.results : last.results[i] })

C31_Witness ==
  /\ last.op = "batch" /\ last.outcome = "returned"
  /\ Len(last.rows) = 2
  /\ last.processed_count = 1
  /\ last.error_count = 1

---------------------------------------------------------------------------
\* C32: a connection obtained inside a `with` scope over the singleton is
\* never used for a store operation after that scope has exited (the exit
\* closes a live connection and clears the singleton): no invocation ends
\* because a statement was issued on a connection its scope had closed.
C32_NoUseAfterScopeExit ==
  [][ last'.outcome # "closed_connection" ]_vars

---------------------------------------------------------------------------
\* C33: a MonitorRecord whose monitor_status is Cancelled or Closed, and its
\* mirror, are never modified again: the MonitorCancel handler changes a
\* record only while its monitor_status is Open.
TerminalMonitorStatuses == {"Cancelled", "Closed"}

C33_TerminalMonitorStatusKept ==
  [][ /\ \A i \in DOMAIN process_monitor_log :
           process_monitor_log[i].monitor_status \in TerminalMonitorStatuses
             => process_monitor_log'[i] = process_monitor_log[i]
      /\ \A i \in DOMAIN process_monitor_progress_log :
           process_monitor_progress_log[i].monitor_status \in TerminalMonitorStatuses
             => process_monitor_progress_log'[i] = process_monitor_progress_log[i]
    ]_vars

---------------------------------------------------------------------------
\* C34: when request_log_details has no row for the record's Request_Id,
\* or a row whose para_1 is empty, the Registration handler returns False
\* before process_case (so before the API request) and writes nothing: all
\* tables are as before and the record is still Open in both queue tables.
PayloadMissing(r) ==
  \/ r \notin DOMAIN request_log_details
  \/ request_log_details[r][1] \in {NULL, ""}

C34_RegistrationLookupMiss ==
  [][ ( /\ last'.op = "registration"
        /\ ~Malformed(last'.rid)
        /\ PayloadMissing(last'.rid) )
      => /\ ~last'.ret
         /\ last'.outcome \in {"nodetails", "noconn", "dberror"}
         /\ Store' = Store
         /\ request_log'[last'.rid] = "Open"
         /\ request_progress_log'[last'.rid] = "Open"
    ]_vars

\* Both kinds of miss have happened in one cycle: no row, then an empty para_1.
C34_Witness ==
  /\ last.op = "registration" /\ last.outcome = "nodetails"
  /\ last.rid \in DOMAIN request_log_details
  /\ \E r \in DOMAIN request_log :
       /\ r # last.rid
       /\ Rows[r].Order_Id = 1 /\ ~Malformed(r)
       /\ r \notin DOMAIN request_log_details
       /\ r \notin Range(work)
       /\ request_log[r] = "Open"

---------------------------------------------------------------------------
\* The document-store variant, orderManipulator/OrderMani.py: the same loop
\* over a MongoDB collection. `collection` holds request_status per
\* document; the fields a document is matched by are in Documents.
OrderMani_optionCount == 4

Documents ==
  << [order_id |-> 1, account_number |-> "ACC1", incident_id |-> "INC1"],
     [order_id |-> 2, account_number |-> "ACC1", incident_id |-> "INC2"],
     [order_id |-> 3, account_number |-> "ACC1", incident_id |-> "INC3"],
     [order_id |-> 4, account_number |-> "ACC1", incident_id |-> "INC4"],
     \* a second document of the account and incident of document 1
     [order_id |-> 1, account_number |-> "ACC1", incident_id |-> "INC1"],
     \* no parameters.incident_id
     [order_id |-> 1, account_number |-> "ACC2", incident_id |-> ""] >>

DocumentIds == DOMAIN Documents

\* What Process_Incident.process_incident does: returns (True, response),
\* returns (False, error) or raises.
IncidentResults == {"ok", "failed", "raised"}

\* The documents the filter of update_one matches: the account, the
\* incident and request_status "Open".
OrderMani_matched(coll, account_number, incident_id) ==
  { d \in DOMAIN coll : /\ Documents[d].account_number = account_number
                        /\ Documents[d].incident_id = incident_id
                        /\ coll[d] = "Open" }

\* OrderMani.Process_request.process_case. `target` is the document
\* update_one modifies when its filter matches several (0 when it matches
\* none, and then modified_count is 0).
OrderMani_process_case(coll, account_number, incident_id, incident, target) ==
  IF incident = "raised"
    THEN [ret |-> FALSE, outcome |-> "raised", coll |-> coll]
  ELSE
    LET status == IF incident = "ok" THEN "Completed" ELSE "Failed" IN
    IF target = 0
      THEN [ret |-> FALSE, outcome |-> "not_modified", coll |-> coll]
      ELSE [ret |-> TRUE,
            outcome |-> IF incident = "ok" THEN "ok" ELSE "api_failed",
            coll |-> [coll EXCEPT ![target] = status]]

\* OrderMani.Process_request.process_single_document.
OrderMani_process_single_document(coll, doc, incident, target) ==
  IF doc.account_number = "" \/ doc.incident_id = ""
    THEN [ret |-> FALSE, outcome |-> "invalid", coll |-> coll]
    ELSE OrderMani_process_case(coll, doc.account_number, doc.incident_id,
                                incident, target)

\* OrderMani.Process_request.process_selected_option for one document of the
\* group: option 1 runs process_option_1; the cases 2, 3 and 4 only print().
OrderMani_process_selected_option(coll, option, doc, incident, target) ==
  IF option = 1
    THEN OrderMani_process_single_document(coll, doc, incident, target)
    ELSE [ret |-> FALSE, outcome |-> "placeholder", coll |-> coll]

\* collection.find({"request_status": "Open"}), in the order of the ids.
OrderMani_get_open_orders(coll) ==
  SelectSeq([i \in DocumentIds |-> i],
            LAMBDA d : d \in DOMAIN coll /\ coll[d] = "Open")

\* run_process: for option in range(1, optionCount), the documents of the
\* snapshot with that order_id.
RECURSIVE OrderMani_Worklist(_, _)
OrderMani_Worklist(docs, option) ==
  IF option >= OrderMani_optionCount THEN << >>
  ELSE SelectSeq(docs, LAMBDA d : Documents[d].order_id = option)
         \o OrderMani_Worklist(docs, option + 1)

InitOrderMani ==
  /\ \E present \in SUBSET DocumentIds :
       /\ present # {}
       /\ Cardinality(present) <= MaxQueue
       /\ collection = [d \in present |-> "Open"]
  /\ request_log = << >>
  /\ request_progress_log = << >>
  /\ process_monitor_log = << >>
  /\ process_monitor_progress_log = << >>
  /\ process_monitor_details = << >>
  /\ instance = "None"
  /\ pc = "fetch"
  /\ open_orders = << >>
  /\ work = << >>
  /\ last = NoCall
  /\ updated = {}

OrderMani_Idle ==
  UNCHANGED << request_log, request_progress_log, process_monitor_log,
               process_monitor_progress_log, process_monitor_details,
               instance, updated >>

OrderMani_Fetch ==
  /\ pc = "fetch"
  /\ open_orders' = OrderMani_get_open_orders(collection)
  /\ work' = OrderMani_Worklist(open_orders', 1)
  /\ pc' = IF open_orders' = << >> THEN "fetch" ELSE "dispatch"
  /\ last' = NoCall
  /\ UNCHANGED collection
  /\ OrderMani_Idle

OrderMani_Dispatch ==
  /\ pc = "dispatch" /\ work # << >>
  /\ LET d == Head(work)
         doc == Documents[d]
         matched == OrderMani_matched(collection, doc.account_number, doc.incident_id)
     IN \E incident \in IncidentResults,
           target \in (IF matched = {} THEN {0} ELSE matched) :
          LET res == OrderMani_process_selected_option(collection, doc.order_id,
                                                       doc, incident, target)
          IN /\ collection' = res.coll
             /\ last' = Call("OrderMani_option", d, res.ret, res.outcome)
  /\ work' = Tail(work)
  /\ UNCHANGED << pc, open_orders >>
  /\ OrderMani_Idle

OrderMani_EndCycle ==
  /\ pc = "dispatch" /\ work = << >>
  /\ pc' = "fetch"
  /\ last' = NoCall
  /\ UNCHANGED << collection, open_orders, work >>
  /\ OrderMani_Idle

\* Another client of the collection completes a document that is Open.
OrderMani_OtherWriter ==
  /\ \E d \in DOMAIN collection :
       /\ collection[d] = "Open"
       /\ collection' = [collection EXCEPT ![d] = "Completed"]
  /\ last' = NoCall
  /\ UNCHANGED << pc, open_orders, work >>
  /\ OrderMani_Idle

OrderManiNext ==
  \/ OrderMani_Fetch
  \/ OrderMani_Dispatch
  \/ OrderMani_EndCycle
  \/ OrderMani_OtherWriter

OrderManiSpec == InitOrderMani /\ [][OrderManiNext]_vars

\* C35: in every cycle that fetched open documents, each document of the
\* snapshot with order_id 1 to 4 is in the work of the cycle, so that an
\* open document with order_id 4 is passed to process_selected_option.
C35_OrderManiGroupsOneToFour ==
  [][ (pc = "fetch" /\ pc' = "dispatch")
        => \A i \in DOMAIN open_orders' :
             Documents[open_orders'[i]].order_id \in 1 .. 4
               => open_orders'[i] \in Range(work') ]_vars

---------------------------------------------------------------------------
\* C36: OrderMani's process_case returns True only if the incident was
\* processed successfully and the Open document was updated: an invocation
\* that returned True has moved a document from Open to Completed.
C36_OrderManiTrueMeansProcessed ==
  [][ (last'.op = "OrderMani_option" /\ last'.ret)
        => \E d \in DOMAIN collection :
             /\ collection[d] = "Open"
             /\ collection'[d] = "Completed" ]_vars

====
